---- MODULE Spec2Model ----
(***************************************************************************)
(* A model of the hybrid math OCR pipeline:                                *)
(*   scripts/math-ocr-v2.py       HybridOCR  (one-shot, lazy engines)      *)
(*   scripts/math-ocr-service.py  OCRService (resident engines, threads)   *)
(* Each thread of control runs ocr_directory / ocr_image step by step; the *)
(* two OCR engines, the image files and the directory listing are the      *)
(* environment and answer nondeterministically.                            *)
(***************************************************************************)
EXTENDS Integers, Sequences, FiniteSets, TLC

None == "None"

(***************************************************************************)
(* Bounds of the model.                                                    *)
(***************************************************************************)
\* the largest number of files one directory listing returns
MaxFiles == 2
\* the largest width and height of the images crop_to_content is applied to
MaxWidth == 4
MaxHeight == 3
\* the largest number of pixels of such an image that are not white
MaxDark == 2
\* the largest padding crop_to_content is called with
MaxPadding == 2
\* is_simple_content is applied to every width and height up to MaxSide
MaxSide == 10
\* the largest number of text regions the text engine reports for one image
MaxRegions == 3

(***************************************************************************)
(* Program constants (default arguments).                                  *)
(***************************************************************************)
DefaultPadding == 20
DefaultThreshold == 250
DefaultAreaThreshold == 5000
DefaultMaxDimension == 80

(***************************************************************************)
(* Small helpers.                                                          *)
(***************************************************************************)
SetMin(S) == CHOOSE m \in S : \A n \in S : m <= n
SetMax(S) == CHOOSE m \in S : \A n \in S : m >= n
min(a, b) == IF a <= b THEN a ELSE b
max(a, b) == IF a >= b THEN a ELSE b

(***************************************************************************)
(* Text.  A str is a sequence of one-character strings, so that strip()    *)
(* and the comparison of file names are computed, not assumed.             *)
(***************************************************************************)
Whitespace == {" ", "\t", "\n"}
Digits == {"0", "1", "5", "7"}

RECURSIVE lstrip(_)
lstrip(s) == IF s # <<>> /\ Head(s) \in Whitespace THEN lstrip(Tail(s)) ELSE s

RECURSIVE rstrip(_)
rstrip(s) ==
    IF s # <<>> /\ s[Len(s)] \in Whitespace
    THEN rstrip(SubSeq(s, 1, Len(s) - 1))
    ELSE s

\* str.strip()
strip(s) == rstrip(lstrip(s))

\* str.isdigit(): non-empty and every character a digit
isdigit(s) == s # <<>> /\ \A i \in 1..Len(s) : s[i] \in Digits

\* str.replace(c, "")
RECURSIVE remove(_, _)
remove(s, c) ==
    IF s = <<>> THEN <<>>
    ELSE IF Head(s) = c THEN remove(Tail(s), c)
    ELSE <<Head(s)>> \o remove(Tail(s), c)

\* code points of the characters file names are made of
Ord(c) ==
    CASE c = "." -> 46
      [] c = "a" -> 97
      [] c = "b" -> 98
      [] c = "g" -> 103
      [] c = "n" -> 110
      [] c = "p" -> 112
      [] c = "s" -> 115
      [] c = "t" -> 116
      [] c = "x" -> 120
      [] c = "z" -> 122

\* str.__lt__: lexicographic by code point, a proper prefix is smaller
RECURSIVE StrLess(_, _)
StrLess(a, b) ==
    IF b = <<>> THEN FALSE
    ELSE IF a = <<>> THEN TRUE
    ELSE IF Head(a) # Head(b) THEN Ord(Head(a)) < Ord(Head(b))
    ELSE StrLess(Tail(a), Tail(b))

EndsWith(s, suffix) ==
    /\ Len(s) >= Len(suffix)
    /\ SubSeq(s, Len(s) - Len(suffix) + 1, Len(s)) = suffix

(***************************************************************************)
(* Paths.  A path is relative to the directory of the batch: a sequence of *)
(* components, the last one the file's name.                               *)
(***************************************************************************)
PathName(p) == p[Len(p)]

\* PurePath.__lt__: the parts are compared as lists of strings
RECURSIVE PathLess(_, _)
PathLess(p, q) ==
    IF q = <<>> THEN FALSE
    ELSE IF p = <<>> THEN TRUE
    ELSE IF Head(p) # Head(q) THEN StrLess(Head(p), Head(q))
    ELSE PathLess(Tail(p), Tail(q))

\* list insertion keeping the order of equal elements (sorted() is stable)
RECURSIVE InsertPath(_, _)
InsertPath(sorted_, p) ==
    IF sorted_ = <<>> THEN <<p>>
    ELSE IF PathLess(p, Head(sorted_)) THEN <<p>> \o sorted_
    ELSE <<Head(sorted_)>> \o InsertPath(Tail(sorted_), p)

RECURSIVE SortPaths(_)
SortPaths(listing) ==
    IF listing = <<>> THEN <<>>
    ELSE InsertPath(SortPaths(SubSeq(listing, 1, Len(listing) - 1)),
                    listing[Len(listing)])

\* sorted(dir_path.glob(pattern))
sorted(listing) == SortPaths(listing)

Png == <<".", "p", "n", "g">>
Txt == <<".", "t", "x", "t">>

\* A glob pattern: one entry per path component, each "*" followed by a
\* literal suffix.  "*.png" is the default; "*/*.png" reaches one level down.
PatPng == <<Png>>
PatSubPng == <<<<>>, Png>>
\* the empty pattern "", which Path.glob rejects
PatEmpty == <<>>
Patterns == {PatPng, PatSubPng, PatEmpty}

\* Path.glob: a path matches when it has one component per pattern
\* component and each component ends with that component's suffix
GlobMatch(p, pattern) ==
    /\ Len(p) = Len(pattern)
    /\ \A i \in 1..Len(p) : EndsWith(p[i], pattern[i])

\* The paths a directory may hold.
PathUniverse ==
    { << <<"a">> \o Png >>,
      << <<"b">> \o Png >>,
      << <<"n">> \o Txt >>,
      << <<"s">>, <<"a">> \o Png >>,
      << <<"s">>, <<"z">> \o Png >>,
      << <<"t">>, <<"a">> \o Png >> }

\* every ordering of a set as a sequence: the orders a listing may come in
Orderings(S) ==
    { f \in [1..Cardinality(S) -> S] : \A i, j \in 1..Cardinality(S) : i # j => f[i] # f[j] }

(***************************************************************************)
(* Images.  An image is its size and the luminance of each pixel (mode     *)
(* "L", 0..255), columns and rows counted from 0.                          *)
(***************************************************************************)
Coords(w, h) == (0..(w - 1)) \X (0..(h - 1))

Image(w, h, dark) ==
    [w |-> w, h |-> h,
     pixels |-> [p \in Coords(w, h) |-> IF p \in dark THEN 0 ELSE 255]]

\* mutant: a pixel of exactly the threshold's luminance counts as content
ContentBoundsInclusive(img, threshold) ==
    LET content == {p \in Coords(img.w, img.h) : img.pixels[p] <= threshold}
    IN  [min_x |-> SetMin({img.w} \cup {p[1] : p \in content}),
         min_y |-> SetMin({img.h} \cup {p[2] : p \in content}),
         max_x |-> SetMax({0} \cup {p[1] : p \in content}),
         max_y |-> SetMax({0} \cup {p[2] : p \in content})]

\* the scan of crop_to_content: min_x, min_y, max_x, max_y start at w, h, 0, 0
\* and are lowered / raised by every pixel below the threshold
ContentBounds(img, threshold) ==
    LET content == {p \in Coords(img.w, img.h) : img.pixels[p] < threshold}
    IN  [min_x |-> SetMin({img.w} \cup {p[1] : p \in content}),
         min_y |-> SetMin({img.h} \cup {p[2] : p \in content}),
         max_x |-> SetMax({0} \cup {p[1] : p \in content}),
         max_y |-> SetMax({0} \cup {p[2] : p \in content})]

\* mutant: the padding is taken off the content box instead of added to it
CropBoxInward(img, padding, threshold) ==
    LET b == ContentBounds(img, threshold)
    IN  [crop_min_x |-> min(b.max_x - 1, b.min_x + padding),
         crop_min_y |-> min(b.max_y - 1, b.min_y + padding),
         crop_max_x |-> b.max_x,
         crop_max_y |-> b.max_y]

\* the rectangle handed to img.crop: (left, upper, right, lower)
CropBox(img, padding, threshold) ==
    LET b == ContentBounds(img, threshold)
    IN  [crop_min_x |-> max(0, b.min_x - padding),
         crop_min_y |-> max(0, b.min_y - padding),
         crop_max_x |-> min(img.w, b.max_x + padding),
         crop_max_y |-> min(img.h, b.max_y + padding)]

\* PIL Image.crop: the pixels of the half-open rectangle
ImageCrop(img, box) ==
    LET cw == box.crop_max_x - box.crop_min_x
        ch == box.crop_max_y - box.crop_min_y
    IN  [w |-> cw, h |-> ch,
         pixels |-> [p \in Coords(cw, ch) |->
                        img.pixels[<<p[1] + box.crop_min_x, p[2] + box.crop_min_y>>]]]

\* the None that crop_to_content returns in place of an image
NoneImage == [w |-> -1, h |-> -1, pixels |-> <<>>]

\* crop_to_content(image, padding, threshold) -> (cropped, (raw_w, raw_h, padded_w, padded_h))
crop_to_content(img, padding, threshold) ==
    LET b == ContentBounds(img, threshold)
        box == CropBox(img, padding, threshold)
    IN  IF b.max_x <= b.min_x \/ b.max_y <= b.min_y
        THEN [cropped |-> NoneImage, dims |-> <<0, 0, 0, 0>>]
        ELSE [cropped |-> ImageCrop(img, box),
              dims |-> <<b.max_x - b.min_x, b.max_y - b.min_y,
                         box.crop_max_x - box.crop_min_x,
                         box.crop_max_y - box.crop_min_y>>]

\* mutant: "<= max_dimension" in the last rule
IsSimpleContentInclusive(content_width, content_height, area_threshold, max_dimension) ==
    LET area == content_width * content_height
        in_band == 20 * content_width >= 7 * content_height
                     /\ content_width <= 2 * content_height
    IN  IF content_height = 0 THEN TRUE
        ELSE IF 2 * content_width > 5 * content_height THEN FALSE
        ELSE IF 20 * content_width < 7 * content_height THEN FALSE
        ELSE IF area < area_threshold /\ in_band THEN TRUE
        ELSE content_width <= max_dimension /\ content_height <= max_dimension /\ in_band

\* is_simple_content.  aspect_ratio = content_width / content_height is
\* compared with 2.5, 0.35 and 2.0; on integers these comparisons are
\*   ratio > 2.5  <=>  2 * w > 5 * h        ratio < 0.35  <=>  20 * w < 7 * h
\*   ratio <= 2.0 <=>  w <= 2 * h           ratio >= 0.35 <=>  20 * w >= 7 * h
is_simple_content(content_width, content_height, area_threshold, max_dimension) ==
    LET area == content_width * content_height
        ratio_gt_2_5 == 2 * content_width > 5 * content_height
        ratio_lt_0_35 == 20 * content_width < 7 * content_height
        ratio_ge_0_35 == 20 * content_width >= 7 * content_height
        ratio_le_2_0 == content_width <= 2 * content_height
    IN  IF content_height = 0 THEN TRUE
        ELSE IF ratio_gt_2_5 THEN FALSE
        ELSE IF ratio_lt_0_35 THEN FALSE
        ELSE IF area < area_threshold /\ ratio_ge_0_35 /\ ratio_le_2_0 THEN TRUE
        ELSE IF content_width < max_dimension /\ content_height < max_dimension
                /\ ratio_ge_0_35 /\ ratio_le_2_0 THEN TRUE
        ELSE FALSE

\* The image files of the model, by what they show.
ImageOf(kind) ==
    CASE kind = "blank"   -> Image(4, 2, {})
      [] kind = "numeral" -> Image(4, 2, {<<1, 0>>, <<2, 1>>})
      [] kind = "wide"    -> Image(4, 2, {<<0, 0>>, <<3, 1>>})

ImageKinds == {"blank", "numeral", "wide"}

(***************************************************************************)
(* The text engine's answer and ocr_simple's choice among its regions.     *)
(* readtext returns a list of (bbox, text, confidence); confidence is      *)
(* modelled in percent.                                                    *)
(***************************************************************************)
Region(text, conf) == <<"bbox", text, conf>>

\* mutant: an entry goes in front of the entries of equal confidence
InsertBeforeTies(texts, e) ==
    LET ahead == {i \in 1..Len(texts) : texts[i][2] > e[2]}
    IN  SubSeq(texts, 1, Cardinality(ahead)) \o <<e>>
        \o SubSeq(texts, Cardinality(ahead) + 1, Len(texts))

\* list.insert for a stable sort by descending confidence: an entry goes
\* behind every entry whose confidence is not smaller
RECURSIVE InsertByConf(_, _)
InsertByConf(texts, e) ==
    IF texts = <<>> THEN <<e>>
    ELSE IF e[2] > Head(texts)[2] THEN <<e>> \o texts
    ELSE <<Head(texts)>> \o InsertByConf(Tail(texts), e)

\* texts.sort(key=lambda x: x[1], reverse=True)
RECURSIVE SortByConf(_)
SortByConf(texts) ==
    IF texts = <<>> THEN <<>>
    ELSE InsertByConf(SortByConf(SubSeq(texts, 1, Len(texts) - 1)),
                      texts[Len(texts)])

\* the tail of ocr_simple: the text of the best region, "" without regions
SelectText(readtext_result) ==
    IF readtext_result # <<>>
    THEN LET texts == [i \in 1..Len(readtext_result) |->
                          <<readtext_result[i][2], readtext_result[i][3]>>]
         IN  SortByConf(texts)[1][1]
    ELSE <<>>

(***************************************************************************)
(* Exceptions, results and reports.                                        *)
(***************************************************************************)
Exc(type, msg, site) == [type |-> type, msg |-> msg, site |-> site]
NoExc == Exc(None, None, None)

\* the classes of the model's exceptions that derive from Exception
ExceptionClasses ==
    {"FileNotFoundError", "UnidentifiedImageError", "RuntimeError", "AttributeError",
     "ValueError", "PermissionError"}

\* mutant: "except RuntimeError as e"
CatchesRuntimeError(e) == e.type = "RuntimeError"

\* "except Exception as e" of ocr_image
Catches(e) == e.type \in ExceptionClasses

\* mutant: the blank image is reported like a caught exception
NoContentAsError(program, image_path) ==
    [success |-> FALSE, latex |-> <<>>, file |-> image_path,
     error |-> "No content found", method |-> "error"]
    @@ (IF program = "v2" THEN [content_size |-> <<0, 0>>] ELSE <<>>)

\* the first return of ocr_image (content_size only in math-ocr-v2.py)
NoContentResult(program, image_path) ==
    [success |-> FALSE, latex |-> <<>>, file |-> image_path,
     error |-> "No content found", method |-> "none"]
    @@ (IF program = "v2" THEN [content_size |-> <<0, 0>>] ELSE <<>>)

\* the return at the end of the try block of ocr_image
SuccessResult(program, image_path, latex, method, is_simple, content_w, content_h) ==
    [success |-> TRUE, latex |-> latex, file |-> image_path,
     error |-> None, method |-> method, is_simple |-> is_simple]
    @@ (IF program = "v2" THEN [content_size |-> <<content_w, content_h>>] ELSE <<>>)

\* the return of the except clause of ocr_image
ErrorResult(program, image_path, e) ==
    [success |-> FALSE, latex |-> <<>>, file |-> image_path,
     error |-> e.msg, method |-> "error"]
    @@ (IF program = "v2" THEN [content_size |-> <<0, 0>>] ELSE <<>>)

\* result.get("is_simple")
GetIsSimple(r) == IF "is_simple" \in DOMAIN r THEN r.is_simple ELSE FALSE

\* mutant: a number with separators is normalised to its digits
DetectNumberNormalised(text) ==
    IF isdigit(text) THEN text
    ELSE IF isdigit(remove(remove(text, "."), ",")) THEN remove(remove(text, "."), ",")
    ELSE text

\* the digit check of math-ocr-v2.py after the text is obtained
DetectNumber(text) ==
    IF isdigit(text) THEN text
    ELSE IF isdigit(remove(remove(text, "."), ",")) THEN text
    ELSE text

\* f"[ERROR: {result['error']}]"
Sentinel(msg) == <<"[ERROR: ", msg, "]">>

\* A dict keeps its keys in insertion order: a sequence of <<key, value>>.
DictKeys(d) == [i \in 1..Len(d) |-> d[i][1]]
DictHas(d, k) == \E i \in 1..Len(d) : d[i][1] = k
DictGet(d, k) == d[CHOOSE i \in 1..Len(d) : d[i][1] = k][2]

\* d[k] = v: a present key keeps its place, a new key goes last
DictSet(d, k, v) ==
    IF DictHas(d, k)
    THEN [i \in 1..Len(d) |-> IF d[i][1] = k THEN <<k, v>> ELSE d[i]]
    ELSE Append(d, <<k, v>>)

EmptyBatch ==
    [image_files |-> <<>>, i |-> 0, results |-> <<>>, errors |-> <<>>,
     simple_count |-> 0, complex_count |-> 0]

\* mutant: a failure is stored in results but not recorded in errors
AccumulateNoErrorRecord(b, result_) ==
    LET name == PathName(b.image_files[b.i])
    IN  IF result_.success
        THEN [b EXCEPT !.results = DictSet(@, name, result_.latex),
                       !.simple_count = IF GetIsSimple(result_) THEN @ + 1 ELSE @,
                       !.complex_count = IF GetIsSimple(result_) THEN @ ELSE @ + 1]
        ELSE [b EXCEPT !.results = DictSet(@, name, Sentinel(result_.error))]

\* the body of the for loop of ocr_directory for one result
Accumulate(b, result_) ==
    LET name == PathName(b.image_files[b.i])
    IN  IF result_.success
        THEN [b EXCEPT !.results = DictSet(@, name, result_.latex),
                       !.simple_count = IF GetIsSimple(result_) THEN @ + 1 ELSE @,
                       !.complex_count = IF GetIsSimple(result_) THEN @ ELSE @ + 1]
        ELSE [b EXCEPT !.errors = Append(@, [file |-> name, error |-> result_.error]),
                       !.results = DictSet(@, name, Sentinel(result_.error))]

\* the dict ocr_directory returns after the loop
Report(b) ==
    [results |-> b.results,
     count |-> Len(b.results),
     success_count |-> Len(b.results) - Len(b.errors),
     simple_count |-> b.simple_count,
     complex_count |-> b.complex_count,
     errors |-> b.errors]

\* the dict ocr_directory returns when no file matches
EmptyReport ==
    [results |-> <<>>, count |-> 0, success_count |-> 0,
     simple_count |-> 0, complex_count |-> 0, errors |-> <<>>]

(***************************************************************************)
(* The engine holder (HybridOCR / OCRService instance).  OCRService has no *)
(* initialized flags: there they stay FALSE.                               *)
(***************************************************************************)
NewOCR ==
    [pix2tex_model |-> None, easyocr_reader |-> None,
     pix2tex_initialized |-> FALSE, easyocr_initialized |-> FALSE]

\* mutant: cleanup drops the handles and forgets the initialized flags
CleanupKeepsFlags(o) == [o EXCEPT !.pix2tex_model = None, !.easyocr_reader = None]

\* HybridOCR.cleanup
cleanup(o) ==
    LET o1 == IF o.pix2tex_model # None
              THEN [o EXCEPT !.pix2tex_model = None, !.pix2tex_initialized = FALSE]
              ELSE o
    IN  IF o1.easyocr_reader # None
        THEN [o1 EXCEPT !.easyocr_reader = None, !.easyocr_initialized = FALSE]
        ELSE o1

\* what a call of cleanup does, in order: the del statements it runs and
\* clear_gpu_memory()
cleanup_calls(o) ==
    (IF o.pix2tex_model # None THEN <<"del pix2tex_model">> ELSE <<>>)
    \o (IF o.easyocr_reader # None THEN <<"del easyocr_reader">> ELSE <<>>)
    \o <<"clear_gpu_memory">>

\* mutant: the service releases the engines after a batch as well
ReclaimAlways(program, auto_cleanup, o) == cleanup(o)

\* what follows the loop of ocr_directory: "if auto_cleanup: self.cleanup()"
\* in the finally clause of math-ocr-v2.py, only gc.collect() in the service
Reclaim(program, auto_cleanup, o) ==
    IF program = "v2" /\ auto_cleanup THEN cleanup(o) ELSE o

\* mutant: _ensure_easyocr without the test of _easyocr_initialized
EnsureEasyocrReloads(o, available, ctor_ok) ==
    IF ~available
    THEN [ocr |-> o, exc |-> Exc("RuntimeError", "easyocr not available", "image"),
          loaded |-> FALSE]
    ELSE [ocr |-> [o EXCEPT !.easyocr_reader = "Reader", !.easyocr_initialized = TRUE],
          exc |-> NoExc, loaded |-> TRUE]

\* HybridOCR._ensure_easyocr; ctor_ok: easyocr.Reader(...) returns
ensure_easyocr(o, available, ctor_ok) ==
    IF o.easyocr_initialized THEN [ocr |-> o, exc |-> NoExc, loaded |-> FALSE]
    ELSE IF ~available
    THEN [ocr |-> o, exc |-> Exc("RuntimeError", "easyocr not available", "image"),
          loaded |-> FALSE]
    ELSE IF ~ctor_ok
    THEN [ocr |-> o, exc |-> Exc("RuntimeError", "model load failed", "image"),
          loaded |-> FALSE]
    ELSE [ocr |-> [o EXCEPT !.easyocr_reader = "Reader", !.easyocr_initialized = TRUE],
          exc |-> NoExc, loaded |-> TRUE]

\* mutant: _ensure_pix2tex sets _pix2tex_initialized before it calls LatexOCR()
EnsurePix2texFlagFirst(o, available, ctor_ok) ==
    IF o.pix2tex_initialized THEN [ocr |-> o, exc |-> NoExc, loaded |-> FALSE]
    ELSE IF ~available
    THEN [ocr |-> o, exc |-> Exc("RuntimeError", "pix2tex not available", "image"),
          loaded |-> FALSE]
    ELSE IF ~ctor_ok
    THEN [ocr |-> [o EXCEPT !.pix2tex_initialized = TRUE],
          exc |-> Exc("RuntimeError", "model load failed", "image"), loaded |-> FALSE]
    ELSE [ocr |-> [o EXCEPT !.pix2tex_model = "LatexOCR", !.pix2tex_initialized = TRUE],
          exc |-> NoExc, loaded |-> TRUE]

\* HybridOCR._ensure_pix2tex; ctor_ok: LatexOCR() returns
ensure_pix2tex(o, available, ctor_ok) ==
    IF o.pix2tex_initialized THEN [ocr |-> o, exc |-> NoExc, loaded |-> FALSE]
    ELSE IF ~available
    THEN [ocr |-> o, exc |-> Exc("RuntimeError", "pix2tex not available", "image"),
          loaded |-> FALSE]
    ELSE IF ~ctor_ok
    THEN [ocr |-> o, exc |-> Exc("RuntimeError", "model load failed", "image"),
          loaded |-> FALSE]
    ELSE [ocr |-> [o EXCEPT !.pix2tex_model = "LatexOCR", !.pix2tex_initialized = TRUE],
          exc |-> NoExc, loaded |-> TRUE]

\* mutant: OCRService.ocr_simple without its "not loaded" guard
ServiceCheckSkipped(o) == [ocr |-> o, exc |-> NoExc, loaded |-> FALSE]

\* the guard at the head of OCRService.ocr_simple
service_check_easyocr(o) ==
    IF o.easyocr_reader = None
    THEN [ocr |-> o, exc |-> Exc("RuntimeError", "EasyOCR not loaded", "image"),
          loaded |-> FALSE]
    ELSE [ocr |-> o, exc |-> NoExc, loaded |-> FALSE]

\* the guard at the head of OCRService.ocr_complex
service_check_pix2tex(o) ==
    IF o.pix2tex_model = None
    THEN [ocr |-> o, exc |-> Exc("RuntimeError", "pix2tex not loaded", "image"),
          loaded |-> FALSE]
    ELSE [ocr |-> o, exc |-> NoExc, loaded |-> FALSE]

\* OCRService.load_models with both constructors returning
load_models(o, pix2tex_available, easyocr_available) ==
    LET o1 == IF pix2tex_available /\ o.pix2tex_model = None
              THEN [o EXCEPT !.pix2tex_model = "LatexOCR"] ELSE o
    IN  IF easyocr_available /\ o1.easyocr_reader = None
        THEN [o1 EXCEPT !.easyocr_reader = "Reader"] ELSE o1

\* the images crop_to_content is applied to on its own: every size up to
\* MaxWidth x MaxHeight, white (255) but for at most MaxDark pixels that are
\* black (0) or of the default threshold's luminance (250)
ImageLum(w, h, lum) ==
    [w |-> w, h |-> h,
     pixels |-> [p \in Coords(w, h) |-> IF p \in DOMAIN lum THEN lum[p] ELSE 255]]

CropImages ==
    UNION { { ImageLum(w, h, lum) :
                lum \in UNION { [D -> {0, DefaultThreshold}] :
                                  D \in { E \in SUBSET Coords(w, h) :
                                            Cardinality(E) <= MaxDark } } } :
            w \in 1..MaxWidth, h \in 1..MaxHeight }

\* the thresholds and paddings it is called with
CropThresholds == {DefaultThreshold, DefaultThreshold + 1}
CropPaddings == 0..MaxPadding

\* mutant: every exception is answered with the generic failure status
HttpStatusGeneric(kind, e) == "500"

\* the constructors a call of load_models runs
load_models_calls(o, pix2tex_available, easyocr_available) ==
    (IF pix2tex_available /\ o.pix2tex_model = None THEN {"LatexOCR"} ELSE {})
    \cup (IF easyocr_available /\ o.easyocr_reader = None THEN {"Reader"} ELSE {})

\* the status ocr_batch / ocr_single answer an exception with
HttpStatus(kind, e) ==
    IF kind = "batch" /\ e.type = "FileNotFoundError" THEN "404" ELSE "500"

(***************************************************************************)
(* State.                                                                  *)
(***************************************************************************)
VARIABLES
    prog,               \* "v2" (math-ocr-v2.py) or "service" (math-ocr-service.py)
    PIX2TEX_AVAILABLE,  \* the import of pix2tex succeeded
    EASYOCR_AVAILABLE,  \* the import of easyocr succeeded
    env,                \* which environment answers: "sequential" or "threaded"
    phase,              \* "startup" | "running" | "failed"
    ocr,                \* the engine holder
    processing_lock,    \* OCRService._processing_lock: None or its owner
    pc,                 \* each thread's position
    req,                \* each thread's request
    frame,              \* the locals of the running ocr_image
    trace,              \* what the running ocr_image has called so far
    result,             \* what ocr_image returned
    batch,              \* the locals of the running ocr_directory
    exc,                \* the exception in flight
    response,           \* what the caller receives
    crop_call,          \* a call of crop_to_content on its own: arguments and result
    call,               \* a call of is_simple_content or of ocr_simple's selection
    singleton           \* OCRService._instance, its _initialized and OCRService._lock

vars ==
    <<prog, PIX2TEX_AVAILABLE, EASYOCR_AVAILABLE, env, phase, ocr, processing_lock,
      pc, req, frame, trace, result, batch, exc, response, crop_call, call,
      singleton>>

fixed == <<prog, PIX2TEX_AVAILABLE, EASYOCR_AVAILABLE, env>>

Threads == {"t1", "t2"}
Directories == {"/data", "/missing"}
ExistingDirs == {"/data"}
SinglePaths == { << <<"a">> \o Png >> }

NoReq ==
    [kind |-> None, directory |-> None, pattern |-> <<>>, auto_cleanup |-> FALSE,
     image_path |-> [directory |-> None, path |-> <<>>]]
NoFrame ==
    [image_path |-> [directory |-> None, path |-> <<>>], cropped |-> NoneImage,
     content_w |-> 0, content_h |-> 0, is_simple |-> FALSE, text |-> <<>>,
     method |-> None]
NoResult == [success |-> FALSE, method |-> None]
NoResponse == [status |-> None]

\* the engines' possible answers
TextAnswer(raises, regions) == [raises |-> raises, regions |-> regions]
FormulaAnswer(raises, latex) == [raises |-> raises, latex |-> latex]

TextAnswers ==
    { TextAnswer(FALSE, <<>>),
      TextAnswer(FALSE, <<Region(<<" ">>, 90)>>),
      TextAnswer(FALSE, <<Region(<<"a">>, 50), Region(<<" ", "7", "\n">>, 90)>>),
      TextAnswer(FALSE, <<Region(<<"1", ",", "5">>, 80), Region(<<"b">>, 80)>>),
      TextAnswer(TRUE, <<>>) }

FormulaAnswers ==
    { FormulaAnswer(FALSE, <<"x", "^", "2">>),
      FormulaAnswer(FALSE, <<>>),
      FormulaAnswer(TRUE, <<>>) }

\* the environment of the sequential runs
FullEnv ==
    [threads |-> {"t1"},
     paths |-> PathUniverse,
     files |-> ImageKinds \cup {"unreadable"},
     text_answers |-> TextAnswers,
     formula_answers |-> FormulaAnswers,
     ctor_ok |-> BOOLEAN]

\* the environment of the threaded service runs
ServiceEnv ==
    [threads |-> Threads,
     paths |-> { << <<"a">> \o Png >>, << <<"b">> \o Png >> },
     files |-> ImageKinds,
     text_answers |-> { TextAnswer(FALSE, <<>>),
                        TextAnswer(FALSE, <<Region(<<"7">>, 90)>>) },
     formula_answers |-> { FormulaAnswer(FALSE, <<"x", "^", "2">>) },
     ctor_ok |-> {TRUE}]

\* the environment of the run
Environment(name) == IF name = "sequential" THEN FullEnv ELSE ServiceEnv
Env == Environment(env)

NoCropCall ==
    [img |-> NoneImage, padding |-> 0, threshold |-> 0, returned |-> FALSE,
     cropped |-> NoneImage, dims |-> <<0, 0, 0, 0>>]

InitProgram(programs, e) ==
    /\ prog \in programs
    /\ PIX2TEX_AVAILABLE \in BOOLEAN
    /\ EASYOCR_AVAILABLE \in BOOLEAN
    /\ env = e
    /\ phase = IF prog = "service" THEN "startup" ELSE "running"
    /\ ocr = NewOCR
    /\ processing_lock = None
    /\ pc = [t \in Threads |-> "idle"]
    /\ req = [t \in Threads |-> NoReq]
    /\ frame = [t \in Threads |-> NoFrame]
    /\ trace = [t \in Threads |-> <<>>]
    /\ result = [t \in Threads |-> NoResult]
    /\ batch = [t \in Threads |-> EmptyBatch]
    /\ exc = [t \in Threads |-> NoExc]
    /\ response = [t \in Threads |-> NoResponse]

NoCall == [fn |-> None, args |-> <<>>, returned |-> FALSE, value |-> None]

\* the class state once "ocr_service = OCRService()" has run at import
Constructed == [instance |-> "OCRService", initialized |-> "True", lock |-> None]

InitWith(programs, e) ==
    /\ InitProgram(programs, e)
    /\ crop_call = NoCropCall
    /\ call = NoCall
    /\ singleton = Constructed

Init == InitWith({"v2", "service"}, "sequential")
InitService == InitWith({"service"}, "threaded")

(***************************************************************************)
(* Service startup: lifespan calls ocr_service.load_models() before any    *)
(* request is served.  A constructor that raises ends the startup.         *)
(***************************************************************************)
LoadModels ==
    /\ prog = "service"
    /\ phase = "startup"
    /\ \E ok \in Env.ctor_ok :
          IF ok
          THEN /\ ocr' = load_models(ocr, PIX2TEX_AVAILABLE, EASYOCR_AVAILABLE)
               /\ phase' = "running"
          ELSE /\ (PIX2TEX_AVAILABLE \/ EASYOCR_AVAILABLE)
               /\ ocr' = ocr
               /\ phase' = "failed"
    /\ UNCHANGED <<fixed, crop_call, call, singleton, processing_lock, pc, req, frame, trace, result, batch,
                   exc, response>>

(***************************************************************************)
(* Lock of the service.                                                    *)
(***************************************************************************)
\* mutant: acquire() that never waits
LockFreeAlways(lock) == TRUE

\* threading.Lock.acquire() returns only when nobody holds the lock
LockFree(lock) == lock = None

\* mutant: leaving the with block keeps the lock
ReleaseSkipped(t) == processing_lock

\* leaving "with self._processing_lock" (the service) on any path
Release(t) ==
    IF prog = "service" /\ req[t].kind = "batch" THEN None ELSE processing_lock

(***************************************************************************)
(* ocr_directory.                                                          *)
(***************************************************************************)
\* a caller submits ocr_directory(directory, pattern[, auto_cleanup])
BeginBatch(t) ==
    /\ phase = "running"
    /\ t \in Env.threads
    /\ pc[t] = "idle"
    /\ \E d \in Directories, pat \in Patterns, ac \in BOOLEAN :
          /\ prog = "service" => ~ac
          /\ req' = [req EXCEPT ![t] =
                        [NoReq EXCEPT !.kind = "batch", !.directory = d,
                                      !.pattern = pat, !.auto_cleanup = ac]]
    /\ pc' = [pc EXCEPT ![t] = IF prog = "service" THEN "dir_lock" ELSE "dir_check"]
    /\ UNCHANGED <<fixed, crop_call, call, singleton, phase, ocr, processing_lock, frame, trace, result, batch,
                   exc, response>>

\* with self._processing_lock:
AcquireLock(t) ==
    /\ pc[t] = "dir_lock"
    /\ LockFree(processing_lock)
    /\ processing_lock' = t
    /\ pc' = [pc EXCEPT ![t] = "dir_check"]
    /\ UNCHANGED <<fixed, crop_call, call, singleton, phase, ocr, req, frame, trace, result, batch, exc, response>>

\* the files of the directory a pattern matches, in the order the listing
\* returns them
Listings(pattern) ==
    UNION { Orderings(S) :
            S \in { M \in SUBSET {p \in Env.paths : GlobMatch(p, pattern)} :
                    Cardinality(M) <= MaxFiles } }

\* image_files = sorted(dir_path.glob(pattern))
ListFiles(listing) == sorted(listing)

\* what the caller of ocr_directory / ocr_image receives when it returns
Returned(value) ==
    IF prog = "service" THEN [status |-> "200", body |-> value]
    ELSE [status |-> "returned", body |-> value]

\* ... and when it raises
Raised(kind, e) ==
    IF prog = "service" THEN [status |-> HttpStatus(kind, e), detail |-> e.msg]
    ELSE [status |-> "raised", body |-> e]

\* the exists() check, the listing and the early return of ocr_directory
DirCheck(t) ==
    /\ pc[t] = "dir_check"
    /\ IF req[t].directory \notin ExistingDirs
       THEN /\ exc' = [exc EXCEPT ![t] =
                          Exc("FileNotFoundError",
                              "Directory not found: " \o req[t].directory, "directory")]
            /\ pc' = [pc EXCEPT ![t] = "unwind"]
            /\ UNCHANGED <<batch, response, processing_lock>>
       ELSE IF req[t].pattern = PatEmpty
       THEN /\ exc' = [exc EXCEPT ![t] =
                          Exc("ValueError", "Unacceptable pattern: ''", "directory")]
            /\ pc' = [pc EXCEPT ![t] = "unwind"]
            /\ UNCHANGED <<batch, response, processing_lock>>
       ELSE \E listing \in Listings(req[t].pattern) :
              LET image_files == ListFiles(listing)
              IN  IF image_files = <<>>
                  THEN /\ response' = [response EXCEPT ![t] = Returned(EmptyReport)]
                       /\ processing_lock' = Release(t)
                       /\ pc' = [pc EXCEPT ![t] = "done"]
                       /\ UNCHANGED <<batch, exc>>
                  ELSE /\ batch' = [batch EXCEPT ![t] =
                                       [EmptyBatch EXCEPT !.image_files = image_files]]
                       /\ pc' = [pc EXCEPT ![t] = "loop"]
                       /\ UNCHANGED <<response, exc, processing_lock>>
    /\ UNCHANGED <<fixed, crop_call, call, singleton, phase, ocr, req, frame, trace, result>>

\* the head of the for loop; after the last file the finally clause
\* (math-ocr-v2.py) or gc.collect() (the service) and the return
LoopNext(t) ==
    /\ pc[t] = "loop"
    /\ IF batch[t].i < Len(batch[t].image_files)
       THEN /\ batch' = [batch EXCEPT ![t].i = @ + 1]
            /\ frame' = [frame EXCEPT ![t] =
                            [NoFrame EXCEPT !.image_path =
                                [directory |-> req[t].directory,
                                 path |-> batch[t].image_files[batch[t].i + 1]]]]
            /\ trace' = [trace EXCEPT ![t] = <<>>]
            /\ result' = [result EXCEPT ![t] = NoResult]
            /\ pc' = [pc EXCEPT ![t] = "img_crop"]
            /\ UNCHANGED <<ocr, response, processing_lock>>
       ELSE /\ ocr' = Reclaim(prog, req[t].auto_cleanup, ocr)
            /\ response' = [response EXCEPT ![t] = Returned(Report(batch[t]))]
            /\ processing_lock' = Release(t)
            /\ pc' = [pc EXCEPT ![t] = "done"]
            /\ UNCHANGED <<batch, frame, trace, result>>
    /\ UNCHANGED <<fixed, crop_call, call, singleton, phase, req, exc>>

(***************************************************************************)
(* ocr_image.                                                              *)
(***************************************************************************)
\* a caller submits ocr_image(image_path)
BeginSingle(t) ==
    /\ phase = "running"
    /\ t \in Env.threads
    /\ pc[t] = "idle"
    /\ \E p \in SinglePaths :
          /\ req' = [req EXCEPT ![t] =
                        [NoReq EXCEPT !.kind = "single",
                                      !.image_path = [directory |-> "/data", path |-> p]]]
          /\ frame' = [frame EXCEPT ![t] =
                          [NoFrame EXCEPT !.image_path = [directory |-> "/data", path |-> p]]]
    /\ pc' = [pc EXCEPT ![t] = "img_crop"]
    /\ UNCHANGED <<fixed, crop_call, call, singleton, phase, ocr, processing_lock, trace, result, batch, exc, response>>

(***************************************************************************)
(* The read-only endpoints of the service.                                 *)
(***************************************************************************)
\* GET /health
HealthCheck(t) ==
    /\ prog = "service"
    /\ phase = "running"
    /\ t \in Env.threads
    /\ pc[t] = "idle"
    /\ req' = [req EXCEPT ![t] = [NoReq EXCEPT !.kind = "health"]]
    /\ response' = [response EXCEPT ![t] =
                        Returned([status |-> "ok",
                                  models_loaded |->
                                      [pix2tex |-> ocr.pix2tex_model # None,
                                       easyocr |-> ocr.easyocr_reader # None]])]
    /\ pc' = [pc EXCEPT ![t] = "done"]
    /\ UNCHANGED <<fixed, crop_call, call, singleton, phase, ocr, processing_lock, frame, trace, result, batch, exc>>

\* GET /memory
GetMemory(t) ==
    /\ prog = "service"
    /\ phase = "running"
    /\ t \in Env.threads
    /\ pc[t] = "idle"
    /\ req' = [req EXCEPT ![t] = [NoReq EXCEPT !.kind = "memory"]]
    /\ response' = [response EXCEPT ![t] = Returned([status |-> "memory"])]
    /\ pc' = [pc EXCEPT ![t] = "done"]
    /\ UNCHANGED <<fixed, crop_call, call, singleton, phase, ocr, processing_lock, frame, trace, result, batch, exc>>

\* an entry of trace: the call, its argument and what came back
CallEvent(op, arg, out) == [op |-> op, arg |-> arg, out |-> out]
Event(op) == CallEvent(op, None, None)

\* mutant: every crop is sent to the text engine first
RouteAlwaysSimple(is_simple) == "simple_begin"

\* "if is_simple: ... else: ..." of ocr_image
Route(is_simple) == IF is_simple THEN "simple_begin" ELSE "complex_begin"

\* Image.open, crop_to_content and is_simple_content
ImgCrop(t) ==
    /\ pc[t] = "img_crop"
    /\ \E kind \in Env.files :
          IF kind = "unreadable"
          THEN /\ exc' = [exc EXCEPT ![t] =
                             Exc("UnidentifiedImageError", "cannot identify image file",
                                 "image")]
               /\ trace' = [trace EXCEPT ![t] =
                               Append(@, CallEvent("crop_to_content", kind, "raised"))]
               /\ pc' = [pc EXCEPT ![t] = "img_except"]
               /\ UNCHANGED <<frame, result>>
          ELSE LET c == crop_to_content(ImageOf(kind), DefaultPadding, DefaultThreshold)
                   content_w == c.dims[1]
                   content_h == c.dims[2]
                   is_simple == is_simple_content(content_w, content_h,
                                                  DefaultAreaThreshold, DefaultMaxDimension)
               IN  IF c.cropped = NoneImage
                   THEN /\ result' = [result EXCEPT ![t] =
                                         NoContentResult(prog, frame[t].image_path)]
                        /\ trace' = [trace EXCEPT ![t] =
                                        Append(@, CallEvent("crop_to_content", kind,
                                                            "no content"))]
                        /\ pc' = [pc EXCEPT ![t] = "img_ret"]
                        /\ UNCHANGED <<frame, exc>>
                   ELSE /\ frame' = [frame EXCEPT ![t].cropped = c.cropped,
                                                  ![t].content_w = content_w,
                                                  ![t].content_h = content_h,
                                                  ![t].is_simple = is_simple]
                        /\ trace' = [trace EXCEPT ![t] =
                                        @ \o <<CallEvent("crop_to_content", kind, "content"),
                                               CallEvent("is_simple_content",
                                                         <<content_w, content_h>>,
                                                         is_simple)>>]
                        /\ pc' = [pc EXCEPT ![t] = Route(is_simple)]
                        /\ UNCHANGED <<result, exc>>
    /\ UNCHANGED <<fixed, crop_call, call, singleton, phase, ocr, processing_lock, req, batch, response>>

\* the head of ocr_simple: _ensure_easyocr() (math-ocr-v2.py) or the
\* "not loaded" guard (the service)
SimpleBegin(t) ==
    /\ pc[t] = "simple_begin"
    /\ \E ctor_ok \in Env.ctor_ok :
          LET e == IF prog = "v2" THEN ensure_easyocr(ocr, EASYOCR_AVAILABLE, ctor_ok)
                   ELSE service_check_easyocr(ocr)
          IN  /\ ocr' = e.ocr
              /\ trace' = [trace EXCEPT ![t] =
                              IF e.loaded THEN Append(@, Event("load_easyocr")) ELSE @]
              /\ IF e.exc # NoExc
                 THEN /\ exc' = [exc EXCEPT ![t] = e.exc]
                      /\ pc' = [pc EXCEPT ![t] = "img_except"]
                 ELSE /\ exc' = exc
                      /\ pc' = [pc EXCEPT ![t] = "in_simple"]
    /\ UNCHANGED <<fixed, crop_call, call, singleton, phase, processing_lock, req, frame, result, batch, response>>

\* self.easyocr_reader.readtext(temp_path), the choice of the best region,
\* then text.strip() and the test "if not text" of ocr_image
InSimple(t) ==
    /\ pc[t] = "in_simple"
    /\ IF ocr.easyocr_reader = None
       THEN /\ exc' = [exc EXCEPT ![t] =
                          Exc("AttributeError",
                              "'NoneType' object has no attribute 'readtext'", "image")]
            /\ pc' = [pc EXCEPT ![t] = "img_except"]
            /\ UNCHANGED <<frame, trace, result>>
       ELSE \E a \in Env.text_answers :
              IF a.raises
              THEN /\ exc' = [exc EXCEPT ![t] =
                                 Exc("RuntimeError", "CUDA out of memory", "image")]
                   /\ trace' = [trace EXCEPT ![t] =
                                   Append(@, CallEvent("readtext", frame[t].cropped, a))]
                   /\ pc' = [pc EXCEPT ![t] = "img_except"]
                   /\ UNCHANGED <<frame, result>>
              ELSE LET text == strip(SelectText(a.regions))
                   IN  /\ trace' = [trace EXCEPT ![t] =
                                       Append(@, CallEvent("readtext", frame[t].cropped, a))]
                       /\ frame' = [frame EXCEPT ![t].text = text, ![t].method = "easyocr"]
                       /\ exc' = exc
                       /\ IF text = <<>>
                          THEN /\ pc' = [pc EXCEPT ![t] = "complex_begin"]
                               /\ result' = result
                          ELSE /\ pc' = [pc EXCEPT ![t] = "img_ret"]
                               /\ result' = [result EXCEPT ![t] =
                                     SuccessResult(prog, frame[t].image_path,
                                         IF prog = "v2" THEN DetectNumber(text) ELSE text,
                                         "easyocr", frame[t].is_simple,
                                         frame[t].content_w, frame[t].content_h)]
    /\ UNCHANGED <<fixed, crop_call, call, singleton, phase, ocr, processing_lock, req, batch, response>>

\* the head of ocr_complex: _ensure_pix2tex() or the "not loaded" guard
ComplexBegin(t) ==
    /\ pc[t] = "complex_begin"
    /\ \E ctor_ok \in Env.ctor_ok :
          LET e == IF prog = "v2" THEN ensure_pix2tex(ocr, PIX2TEX_AVAILABLE, ctor_ok)
                   ELSE service_check_pix2tex(ocr)
          IN  /\ ocr' = e.ocr
              /\ trace' = [trace EXCEPT ![t] =
                              IF e.loaded THEN Append(@, Event("load_pix2tex")) ELSE @]
              /\ IF e.exc # NoExc
                 THEN /\ exc' = [exc EXCEPT ![t] = e.exc]
                      /\ pc' = [pc EXCEPT ![t] = "img_except"]
                 ELSE /\ exc' = exc
                      /\ pc' = [pc EXCEPT ![t] = "in_complex"]
    /\ UNCHANGED <<fixed, crop_call, call, singleton, phase, processing_lock, req, frame, result, batch, response>>

\* mutant: the escalation is reported as a plain formula-engine result
ComplexMethodPlain(is_simple) == "pix2tex"

\* the method ocr_image reports for a formula-engine answer
ComplexMethod(is_simple) == IF is_simple THEN "easyocr+pix2tex" ELSE "pix2tex"

\* self.pix2tex_model(cropped_img) and the rest of ocr_image's try block
InComplex(t) ==
    /\ pc[t] = "in_complex"
    /\ IF ocr.pix2tex_model = None
       THEN /\ exc' = [exc EXCEPT ![t] =
                          Exc("AttributeError", "'NoneType' object is not callable", "image")]
            /\ pc' = [pc EXCEPT ![t] = "img_except"]
            /\ UNCHANGED <<frame, trace, result>>
       ELSE \E a \in Env.formula_answers :
              IF a.raises
              THEN /\ exc' = [exc EXCEPT ![t] =
                                 Exc("RuntimeError", "CUDA out of memory", "image")]
                   /\ trace' = [trace EXCEPT ![t] =
                                   Append(@, CallEvent("pix2tex", frame[t].cropped, a))]
                   /\ pc' = [pc EXCEPT ![t] = "img_except"]
                   /\ UNCHANGED <<frame, result>>
              ELSE LET method == ComplexMethod(frame[t].is_simple)
                       latex == IF prog = "v2" /\ frame[t].is_simple
                                THEN DetectNumber(a.latex) ELSE a.latex
                   IN  /\ trace' = [trace EXCEPT ![t] =
                                       Append(@, CallEvent("pix2tex", frame[t].cropped, a))]
                       /\ frame' = [frame EXCEPT ![t].text = a.latex, ![t].method = method]
                       /\ exc' = exc
                       /\ pc' = [pc EXCEPT ![t] = "img_ret"]
                       /\ result' = [result EXCEPT ![t] =
                             SuccessResult(prog, frame[t].image_path, latex, method,
                                           frame[t].is_simple,
                                           frame[t].content_w, frame[t].content_h)]
    /\ UNCHANGED <<fixed, crop_call, call, singleton, phase, ocr, processing_lock, req, batch, response>>

\* the except clause of ocr_image; an exception it does not catch leaves
\* ocr_image
ImgExcept(t) ==
    /\ pc[t] = "img_except"
    /\ IF Catches(exc[t])
       THEN /\ result' = [result EXCEPT ![t] =
                             ErrorResult(prog, frame[t].image_path, exc[t])]
            /\ exc' = [exc EXCEPT ![t] = NoExc]
            /\ pc' = [pc EXCEPT ![t] = "img_ret"]
       ELSE /\ pc' = [pc EXCEPT ![t] = "unwind"]
            /\ UNCHANGED <<result, exc>>
    /\ UNCHANGED <<fixed, crop_call, call, singleton, phase, ocr, processing_lock, req, frame, trace, batch, response>>

\* ocr_image returns: to the loop of ocr_directory, or to the caller
ImgReturn(t) ==
    /\ pc[t] = "img_ret"
    /\ IF req[t].kind = "batch"
       THEN /\ batch' = [batch EXCEPT ![t] = Accumulate(@, result[t])]
            /\ pc' = [pc EXCEPT ![t] = "loop"]
            /\ UNCHANGED response
       ELSE /\ response' = [response EXCEPT ![t] = Returned(result[t])]
            /\ pc' = [pc EXCEPT ![t] = "done"]
            /\ UNCHANGED batch
    /\ UNCHANGED <<fixed, crop_call, call, singleton, phase, ocr, processing_lock, req, frame, trace, result, exc>>

\* an exception leaves ocr_directory / ocr_image: the finally clause of the
\* loop (math-ocr-v2.py), the end of the with block (the service), and the
\* caller's answer
Unwind(t) ==
    /\ pc[t] = "unwind"
    /\ ocr' = IF req[t].kind = "batch" /\ exc[t].site = "image"
              THEN Reclaim(prog, req[t].auto_cleanup, ocr) ELSE ocr
    /\ processing_lock' = Release(t)
    /\ response' = [response EXCEPT ![t] = Raised(req[t].kind, exc[t])]
    /\ pc' = [pc EXCEPT ![t] = "done"]
    /\ UNCHANGED <<fixed, crop_call, call, singleton, phase, req, frame, trace, result, batch, exc>>

\* the caller has its answer; the thread is free for the next call
Finish(t) ==
    /\ pc[t] = "done"
    /\ pc' = [pc EXCEPT ![t] = "idle"]
    /\ req' = [req EXCEPT ![t] = NoReq]
    /\ frame' = [frame EXCEPT ![t] = NoFrame]
    /\ trace' = [trace EXCEPT ![t] = <<>>]
    /\ result' = [result EXCEPT ![t] = NoResult]
    /\ batch' = [batch EXCEPT ![t] = EmptyBatch]
    /\ exc' = [exc EXCEPT ![t] = NoExc]
    /\ response' = [response EXCEPT ![t] = NoResponse]
    /\ UNCHANGED <<fixed, crop_call, call, singleton, phase, ocr, processing_lock>>

\* a caller of HybridOCR calls cleanup() between two calls
Cleanup(t) ==
    /\ prog = "v2"
    /\ t \in Env.threads
    /\ pc[t] = "idle"
    /\ req' = [req EXCEPT ![t] = [NoReq EXCEPT !.kind = "cleanup"]]
    /\ trace' = [trace EXCEPT ![t] =
                    [i \in 1..Len(cleanup_calls(ocr)) |-> Event(cleanup_calls(ocr)[i])]]
    /\ ocr' = cleanup(ocr)
    /\ response' = [response EXCEPT ![t] = Returned(None)]
    /\ pc' = [pc EXCEPT ![t] = "done"]
    /\ UNCHANGED <<fixed, crop_call, call, singleton, phase, processing_lock, frame, result, batch, exc>>

(***************************************************************************)
(* main of math-ocr-v2.py: one run of the command line after "--check" was *)
(* handled and ocr = HybridOCR() was created.                              *)
(***************************************************************************)
\* the ways main is started: --batch-dir DIR, INPUT naming a directory,
\* INPUT naming anything else, no input at all
MainModes == {"batch_dir", "input_dir", "input_file", "no_input"}

\* mutant: main has no final cleanup
FinalCleanupSkipped(auto_cleanup, o) == o

\* the finally clause of main
FinalCleanup(auto_cleanup, o) ==
    IF auto_cleanup /\ (o.pix2tex_initialized \/ o.easyocr_initialized)
    THEN cleanup(o) ELSE o

\* args = parser.parse_args(); auto_cleanup = not args.no_cleanup; the
\* branch of the try block up to the call of ocr_directory / ocr_image
MainBegin(t) ==
    /\ prog = "v2"
    /\ phase = "running"
    /\ t \in Env.threads
    /\ pc[t] = "idle"
    /\ \E mode \in MainModes, no_cleanup \in BOOLEAN :
          CASE mode = "batch_dir" ->
                 \E d \in Directories :
                    /\ req' = [req EXCEPT ![t] =
                                  [NoReq EXCEPT !.kind = "batch", !.directory = d,
                                                !.pattern = PatPng,
                                                !.auto_cleanup = ~no_cleanup]]
                    /\ pc' = [pc EXCEPT ![t] = "dir_check"]
                    /\ UNCHANGED <<frame, exc>>
            [] mode = "input_dir" ->
                 \E d \in ExistingDirs :
                    /\ req' = [req EXCEPT ![t] =
                                  [NoReq EXCEPT !.kind = "batch", !.directory = d,
                                                !.pattern = PatPng,
                                                !.auto_cleanup = ~no_cleanup]]
                    /\ pc' = [pc EXCEPT ![t] = "dir_check"]
                    /\ UNCHANGED <<frame, exc>>
            [] mode = "input_file" ->
                 \E p \in SinglePaths :
                    /\ req' = [req EXCEPT ![t] =
                                  [NoReq EXCEPT !.kind = "single",
                                                !.image_path =
                                                    [directory |-> "/data", path |-> p],
                                                !.auto_cleanup = ~no_cleanup]]
                    /\ frame' = [frame EXCEPT ![t] =
                                    [NoFrame EXCEPT !.image_path =
                                        [directory |-> "/data", path |-> p]]]
                    /\ pc' = [pc EXCEPT ![t] = "img_crop"]
                    /\ UNCHANGED exc
            [] mode = "no_input" ->
                    /\ req' = [req EXCEPT ![t] =
                                  [NoReq EXCEPT !.kind = "help",
                                                !.auto_cleanup = ~no_cleanup]]
                    /\ exc' = [exc EXCEPT ![t] = Exc("SystemExit", "1", "main")]
                    /\ pc' = [pc EXCEPT ![t] = "main_finally"]
                    /\ UNCHANGED frame
    /\ UNCHANGED <<fixed, crop_call, call, singleton, phase, ocr, processing_lock, trace, result, batch, response>>

\* Ctrl-C while ocr_image is at work: KeyboardInterrupt is no Exception
Interrupt(t) ==
    /\ prog = "v2"
    /\ pc[t] \in {"img_crop", "simple_begin", "in_simple", "complex_begin", "in_complex"}
    /\ exc' = [exc EXCEPT ![t] = Exc("KeyboardInterrupt", "", "image")]
    /\ pc' = [pc EXCEPT ![t] = "img_except"]
    /\ UNCHANGED <<fixed, crop_call, call, singleton, phase, ocr, processing_lock, req, frame, trace, result, batch,
                   response>>

\* back in main after ocr_directory / ocr_image: an exception goes on to the
\* finally clause; a single image is followed by "if auto_cleanup:
\* ocr.cleanup()"; then output = json.dumps(result)
MainAfterCall(t) ==
    /\ pc[t] = "done"
    /\ IF response[t].status = "raised"
       THEN /\ pc' = [pc EXCEPT ![t] = "main_finally"]
            /\ ocr' = ocr
       ELSE /\ pc' = [pc EXCEPT ![t] = "main_output"]
            /\ ocr' = IF req[t].kind = "single" /\ req[t].auto_cleanup
                      THEN cleanup(ocr) ELSE ocr
    /\ UNCHANGED <<fixed, crop_call, call, singleton, phase, processing_lock, req, frame, trace, result, batch, exc,
                   response>>

\* the output is printed or written to args.output; open() or write() may fail
MainOutput(t) ==
    /\ pc[t] = "main_output"
    /\ \E written \in BOOLEAN :
          exc' = [exc EXCEPT ![t] =
                     IF written THEN NoExc
                     ELSE Exc("PermissionError", "Permission denied", "main")]
    /\ pc' = [pc EXCEPT ![t] = "main_finally"]
    /\ UNCHANGED <<fixed, crop_call, call, singleton, phase, ocr, processing_lock, req, frame, trace, result, batch,
                   response>>

\* the finally clause of main, then the process exits
MainFinally(t) ==
    /\ pc[t] = "main_finally"
    /\ ocr' = FinalCleanup(req[t].auto_cleanup, ocr)
    /\ response' = [response EXCEPT ![t] =
                        [status |-> "exit",
                         code |-> IF exc[t] = NoExc THEN 0 ELSE 1]]
    /\ pc' = [pc EXCEPT ![t] = "exited"]
    /\ UNCHANGED <<fixed, crop_call, call, singleton, phase, processing_lock, req, frame, trace, result, batch, exc>>

(***************************************************************************)
(* Specifications.                                                         *)
(***************************************************************************)
ThreadStep(t) ==
    \/ BeginBatch(t)
    \/ AcquireLock(t)
    \/ DirCheck(t)
    \/ LoopNext(t)
    \/ BeginSingle(t)
    \/ ImgCrop(t)
    \/ SimpleBegin(t)
    \/ InSimple(t)
    \/ ComplexBegin(t)
    \/ InComplex(t)
    \/ ImgExcept(t)
    \/ ImgReturn(t)
    \/ Unwind(t)
    \/ HealthCheck(t)
    \/ GetMemory(t)
    \/ Finish(t)

\* one caller at a time, either program
Next ==
    \/ LoadModels
    \/ \E t \in Threads : ThreadStep(t)
    \/ \E t \in Threads : Cleanup(t)

Spec == Init /\ [][Next]_vars

\* the service with its worker threads
NextService ==
    \/ LoadModels
    \/ \E t \in Threads : ThreadStep(t)

SpecService == InitService /\ [][NextService]_vars

\* the steps a worker thread takes by itself once its request is submitted:
\* every call it makes returns or raises, and the answer is delivered
Progress(t) ==
    \/ DirCheck(t)
    \/ LoopNext(t)
    \/ ImgCrop(t)
    \/ SimpleBegin(t)
    \/ InSimple(t)
    \/ ComplexBegin(t)
    \/ InComplex(t)
    \/ ImgExcept(t)
    \/ ImgReturn(t)
    \/ Unwind(t)
    \/ Finish(t)

\* the service whose threads keep running: a thread that can take a step
\* takes it, and a thread blocked in acquire() of the processing lock gets
\* the lock if it is released again and again
SpecServiceFair ==
    /\ InitService
    /\ [][NextService]_vars
    /\ \A t \in Threads : WF_vars(Progress(t))
    /\ \A t \in Threads : SF_vars(AcquireLock(t))

\* one run of the command line of math-ocr-v2.py
InitMain == InitWith({"v2"}, "sequential")

NextMain ==
    \E t \in Threads :
        \/ MainBegin(t)
        \/ DirCheck(t)
        \/ LoopNext(t)
        \/ ImgCrop(t)
        \/ SimpleBegin(t)
        \/ InSimple(t)
        \/ ComplexBegin(t)
        \/ InComplex(t)
        \/ Interrupt(t)
        \/ ImgExcept(t)
        \/ ImgReturn(t)
        \/ Unwind(t)
        \/ MainAfterCall(t)
        \/ MainOutput(t)
        \/ MainFinally(t)

SpecMain == InitMain /\ [][NextMain]_vars

\* crop_to_content on its own, applied to every image, padding and threshold
\* of the bounds
InitCrop ==
    /\ InitProgram({"v2", "service"}, "sequential")
    /\ PIX2TEX_AVAILABLE
    /\ EASYOCR_AVAILABLE
    /\ \E img \in CropImages, padding \in CropPaddings, threshold \in CropThresholds :
          crop_call = [NoCropCall EXCEPT !.img = img, !.padding = padding,
                                         !.threshold = threshold]
    /\ call = NoCall
    /\ singleton = Constructed

CropToContent ==
    /\ ~crop_call.returned
    /\ LET c == crop_to_content(crop_call.img, crop_call.padding, crop_call.threshold)
       IN  crop_call' = [crop_call EXCEPT !.returned = TRUE, !.cropped = c.cropped,
                                          !.dims = c.dims]
    /\ UNCHANGED <<fixed, call, singleton, phase, ocr, processing_lock, pc, req, frame,
                   trace, result, batch, exc, response>>

NextCrop == CropToContent

SpecCrop == InitCrop /\ [][NextCrop]_vars

\* is_simple_content on its own: the widths and heights and the thresholds
\* it is applied to
Sides == (0..MaxSide) \cup {20, 50, 79, 80, 100, 200}
AreaThresholds == {DefaultAreaThreshold, 30}
MaxDimensions == {DefaultMaxDimension, 8}

ClassifyCalls ==
    { [NoCall EXCEPT !.fn = "is_simple_content", !.args = <<w, h, a, m>>] :
        w \in Sides, h \in Sides, a \in AreaThresholds, m \in MaxDimensions }

IsSimpleContent ==
    /\ call.fn = "is_simple_content"
    /\ ~call.returned
    /\ call' = [call EXCEPT !.returned = TRUE,
                            !.value = is_simple_content(call.args[1], call.args[2],
                                                        call.args[3], call.args[4])]
    /\ UNCHANGED <<fixed, crop_call, singleton, phase, ocr, processing_lock, pc, req,
                   frame, trace, result, batch, exc, response>>

InitClassify ==
    /\ InitProgram({"v2", "service"}, "sequential")
    /\ PIX2TEX_AVAILABLE
    /\ EASYOCR_AVAILABLE
    /\ crop_call = NoCropCall
    /\ call \in ClassifyCalls
    /\ singleton = Constructed

NextClassify == IsSimpleContent

SpecClassify == InitClassify /\ [][NextClassify]_vars

\* the selection of ocr_simple on its own: the lists of regions readtext
\* may return, up to MaxRegions long
RegionTexts == {<<"a">>, <<"b">>, <<"c">>}
Confidences == {10, 50, 90}

RegionLists ==
    UNION { [1..n -> {Region(text, conf) : text \in RegionTexts, conf \in Confidences}] :
            n \in 0..MaxRegions }

OcrSimpleSelect ==
    /\ call.fn = "ocr_simple"
    /\ ~call.returned
    /\ call' = [call EXCEPT !.returned = TRUE, !.value = SelectText(call.args[1])]
    /\ UNCHANGED <<fixed, crop_call, singleton, phase, ocr, processing_lock, pc, req,
                   frame, trace, result, batch, exc, response>>

InitSelect ==
    /\ InitProgram({"v2", "service"}, "sequential")
    /\ PIX2TEX_AVAILABLE
    /\ EASYOCR_AVAILABLE
    /\ crop_call = NoCropCall
    /\ \E regions \in RegionLists :
          call = [NoCall EXCEPT !.fn = "ocr_simple", !.args = <<regions>>]
    /\ singleton = Constructed

NextSelect == OcrSimpleSelect

SpecSelect == InitSelect /\ [][NextSelect]_vars

(***************************************************************************)
(* Properties.                                                             *)
(***************************************************************************)
\* the positions in thread t's trace of the calls of op
Calls(t, op) == {i \in 1..Len(trace[t]) : trace[t][i].op = op}

IsBlank(s) == \A i \in 1..Len(s) : s[i] \in Whitespace

\* ocr_simple returned (did not raise) in the running ocr_image of t
TextReturned(t) == {i \in Calls(t, "readtext") : ~trace[t][i].out.raises}

\* ... and what it returned
TextOf(t, i) == SelectText(trace[t][i].out.regions)

\* the formula engine returned in the running ocr_image of t
FormulaReturned(t) == {i \in Calls(t, "pix2tex") : ~trace[t][i].out.raises}

\* an OCR execution (a call on a shared engine) is in progress in t
InOCR(t) == pc[t] \in {"in_simple", "in_complex"}

\* t is inside "with self._processing_lock" of ocr_directory
InBatchBody(t) ==
    /\ req[t].kind = "batch"
    /\ pc[t] \notin {"idle", "dir_lock", "done"}

\* t's ocr_directory has returned a report
HasReport(t) ==
    /\ req[t].kind = "batch"
    /\ pc[t] = "done"
    /\ response[t].status \in {"200", "returned"}

\* C1: in the service, no two OCR executions (calls on the shared engines)
\* are ever in progress at the same time, whatever mix of batch and
\* single-image requests the worker threads run.
C1_NoParallelOCR ==
    \A t, u \in Threads : (InOCR(t) /\ InOCR(u)) => t = u

\* C2: in the service the images of two batches never interleave: while one
\* thread is inside the gate of ocr_directory it owns the gate, and every
\* other thread with a batch is either still waiting at the gate with no
\* image started or has already finished all of its images.
C2_BatchesDoNotInterleave ==
    \A t, u \in Threads :
        (t # u /\ InBatchBody(t) /\ req[u].kind = "batch") =>
            /\ processing_lock = t
            /\ pc[u] \in {"dir_lock", "done"}
            /\ pc[u] = "dir_lock" => batch[u].i = 0

\* C2 witness: one batch is recognising its second image while the other
\* batch waits at the gate.
C2_Witness ==
    \E t, u \in Threads :
        /\ t # u
        /\ req[t].kind = "batch" /\ InOCR(t) /\ batch[t].i = 2
        /\ req[u].kind = "batch" /\ pc[u] = "dir_lock"

\* C3 as stated: whenever the text engine returned an empty or
\* whitespace-only string for a Simple crop, the result has the escalation
\* method and the formula engine's text for the same crop.
C3_EscalationAlways ==
    \A t \in Threads :
        (pc[t] = "img_ret" /\ \E i \in TextReturned(t) : IsBlank(TextOf(t, i))) =>
            /\ result[t].method = "easyocr+pix2tex"
            /\ \E j \in FormulaReturned(t) :
                  /\ trace[t][j].arg = frame[t].cropped
                  /\ result[t].latex = trace[t][j].out.latex

\* C3 amended: when the text engine returned an empty or whitespace-only
\* string for a Simple crop and the formula engine then returns, the result
\* is a success with the escalation method, is_simple true and exactly the
\* formula engine's text for the same crop (which may itself be empty);
\* when the formula engine cannot be loaded or raises, the result is the
\* failed result with method "error".
C3_Escalation ==
    \A t \in Threads :
        (pc[t] = "img_ret" /\ \E i \in TextReturned(t) : IsBlank(TextOf(t, i))) =>
            IF FormulaReturned(t) # {}
            THEN /\ result[t].success
                 /\ result[t].method = "easyocr+pix2tex"
                 /\ result[t].is_simple
                 /\ \A j \in FormulaReturned(t) :
                       /\ trace[t][j].arg = frame[t].cropped
                       /\ result[t].latex = trace[t][j].out.latex
            ELSE /\ ~result[t].success
                 /\ result[t].method = "error"
                 /\ result[t].latex = <<>>

\* C3 witness: a whitespace-only answer of the text engine was escalated and
\* the formula engine's text was returned.
C3_Witness ==
    \E t \in Threads :
        /\ pc[t] = "img_ret"
        /\ \E i \in TextReturned(t) : TextOf(t, i) = <<" ">>
        /\ result[t].method = "easyocr+pix2tex"
        /\ result[t].latex = <<"x", "^", "2">>

\* the running ocr_image of t classified its crop Complex
ClassifiedComplex(t) ==
    \E i \in Calls(t, "is_simple_content") : trace[t][i].out = FALSE

\* C4: for a crop classified Complex, ocr_image neither calls nor loads the
\* text engine; it goes to the formula engine with that crop, and a
\* successful result has method "pix2tex", is_simple false and the formula
\* engine's text.
C4_ComplexDirect ==
    \A t \in Threads :
        ClassifiedComplex(t) =>
            /\ Calls(t, "readtext") = {}
            /\ Calls(t, "load_easyocr") = {}
            /\ pc[t] \notin {"simple_begin", "in_simple"}
            /\ \A j \in Calls(t, "pix2tex") : trace[t][j].arg = frame[t].cropped
            /\ pc[t] = "img_ret" =>
                  IF result[t].success
                  THEN /\ result[t].method = "pix2tex"
                       /\ result[t].is_simple = FALSE
                       /\ \E j \in FormulaReturned(t) :
                             result[t].latex = trace[t][j].out.latex
                  ELSE result[t].method = "error"

\* C4 witness: a Complex crop was recognised by the formula engine.
C4_Witness ==
    \E t \in Threads :
        /\ pc[t] = "img_ret"
        /\ ClassifiedComplex(t)
        /\ result[t].success
        /\ result[t].latex = <<"x", "^", "2">>

\* tr is s without its leading and trailing whitespace (stated without strip)
IsTrimOf(tr, s) ==
    \E i \in 1..(Len(s) + 1), j \in 0..Len(s) :
        /\ tr = SubSeq(s, i, j)
        /\ \A k \in 1..(i - 1) : s[k] \in Whitespace
        /\ \A k \in (j + 1)..Len(s) : s[k] \in Whitespace
        /\ tr # <<>> => (tr[1] \notin Whitespace /\ tr[Len(tr)] \notin Whitespace)

\* C5: when the text engine returned a string that is not empty after
\* trimming, ocr_image returns success with method "easyocr", is_simple
\* true and exactly the trimmed string, and the formula engine is neither
\* called nor loaded.
C5_SimplePassThrough ==
    \A t \in Threads :
        \A i \in TextReturned(t) :
            (pc[t] = "img_ret" /\ ~IsBlank(TextOf(t, i))) =>
                /\ result[t].success
                /\ result[t].method = "easyocr"
                /\ result[t].is_simple
                /\ IsTrimOf(result[t].latex, TextOf(t, i))
                /\ Calls(t, "pix2tex") = {}
                /\ Calls(t, "load_pix2tex") = {}

\* C5 witness: math-ocr-v2.py returned the number "1,5" as the text engine
\* gave it.
C5_Witness ==
    \E t \in Threads :
        /\ prog = "v2"
        /\ pc[t] = "img_ret"
        /\ result[t].method = "easyocr"
        /\ result[t].latex = <<"1", ",", "5">>

\* C6: ocr_image never raises: every exception raised inside it becomes the
\* returned result with success false, empty text, the exception's message
\* and method "error", and the only exception that ever leaves a call is the
\* one ocr_directory raises itself for a missing directory.
C6_NeverRaises ==
    [][\A t \in Threads :
          /\ (pc[t] = "img_except" /\ pc'[t] # "img_except") =>
                /\ pc'[t] = "img_ret"
                /\ result'[t].success = FALSE
                /\ result'[t].latex = <<>>
                /\ result'[t].error = exc[t].msg
                /\ result'[t].method = "error"
          /\ pc'[t] = "unwind" => exc'[t].site = "directory"]_vars

\* C6 witness: the formula engine raised during an escalation and ocr_image
\* returned the failed result.
C6_Witness ==
    \E t \in Threads :
        /\ pc[t] = "img_ret"
        /\ \E i \in TextReturned(t) : IsBlank(TextOf(t, i))
        /\ \E j \in Calls(t, "pix2tex") : trace[t][j].out.raises
        /\ result[t].method = "error"
        /\ result[t].error = "CUDA out of memory"

\* the locator reported no content in the running ocr_image of t
NoContentReported(t) ==
    /\ trace[t] # <<>>
    /\ trace[t][1].op = "crop_to_content"
    /\ trace[t][1].out # "raised"
    /\ crop_to_content(ImageOf(trace[t][1].arg), DefaultPadding,
                       DefaultThreshold).cropped = NoneImage

\* C7: when the locator reports no content, ocr_image returns success
\* false, empty text, error "No content found" and method "none", and the
\* locator is the only thing it called: no classification, no engine loaded
\* or invoked.
C7_NoContent ==
    \A t \in Threads :
        NoContentReported(t) =>
            /\ Len(trace[t]) = 1
            /\ pc[t] \in {"img_ret", "loop", "done"}
            /\ result[t].success = FALSE
            /\ result[t].latex = <<>>
            /\ result[t].error = "No content found"
            /\ result[t].method = "none"

\* C7 witness: a single-image call on a blank image has returned.
C7_Witness ==
    \E t \in Threads :
        /\ req[t].kind = "single"
        /\ pc[t] = "img_ret"
        /\ NoContentReported(t)

\* C8: the report of ocr_directory has exactly one results entry per file
\* the pattern matched, and count is the number of matched files.
C8_OneEntryPerFile ==
    \A t \in Threads :
        HasReport(t) =>
            /\ response[t].body.count = Len(batch[t].image_files)
            /\ Len(response[t].body.results) = Len(batch[t].image_files)

\* the name of the file whose result the loop is about to take
CurrentName(t) == PathName(batch[t].image_files[batch[t].i])

\* C9: a failed image never aborts the batch: the loop step that takes a
\* failed result appends exactly one {file, error} record, stores
\* "[ERROR: <message>]" under the file's name and goes on to the next file;
\* the step that takes a success leaves errors alone; and a report is
\* returned only after every matched file was taken, with one error record
\* per failed file.
C9_FailureDoesNotAbort ==
    [][\A t \in Threads :
          /\ (pc[t] = "img_ret" /\ req[t].kind = "batch" /\ pc'[t] # "img_ret") =>
                /\ pc'[t] = "loop"
                /\ batch'[t].i = batch[t].i
                /\ IF result[t].success
                   THEN batch'[t].errors = batch[t].errors
                   ELSE /\ batch'[t].errors =
                              Append(batch[t].errors,
                                     [file |-> CurrentName(t), error |-> result[t].error])
                        /\ DictGet(batch'[t].results, CurrentName(t)) =
                              <<"[ERROR: ", result[t].error, "]">>
          /\ (pc[t] = "loop" /\ pc'[t] = "done") =>
                /\ batch[t].i = Len(batch[t].image_files)
                /\ response'[t].status \in {"200", "returned"}
                /\ response'[t].body.errors = batch[t].errors]_vars

\* C9 witness: the first file of a batch failed, the second succeeded, and
\* the report was returned.
C9_Witness ==
    \E t \in Threads :
        /\ HasReport(t)
        /\ Len(batch[t].image_files) = 2
        /\ Len(response[t].body.errors) = 1
        /\ response[t].body.errors[1].file = PathName(batch[t].image_files[1])
        /\ response[t].body.success_count = 1

\* no name of s comes before its predecessor in lexicographic order
NamesAscending(s) == \A i \in 1..(Len(s) - 1) : ~StrLess(s[i + 1], s[i])

\* C10: results and errors list the matched files in lexicographic order of
\* their file names, whatever order the listing came in.
C10_FilenameOrder ==
    \A t \in Threads :
        HasReport(t) =>
            /\ NamesAscending(DictKeys(response[t].body.results))
            /\ NamesAscending([i \in 1..Len(response[t].body.errors) |->
                                  response[t].body.errors[i].file])

\* C11: ocr_directory on a path that does not exist raises FileNotFoundError
\* before any file is processed or any engine is invoked (no loop iteration,
\* no call recorded); the service answers it with 404 and every other
\* exception with 500.
C11_DirectoryNotFound ==
    \A t \in Threads :
        /\ (req[t].kind = "batch" /\ pc[t] = "done"
                /\ req[t].directory \notin ExistingDirs) =>
              /\ exc[t].type = "FileNotFoundError"
              /\ response[t].status = IF prog = "service" THEN "404" ELSE "raised"
              /\ prog = "v2" => response[t].body.type = "FileNotFoundError"
              /\ batch[t] = EmptyBatch
              /\ trace[t] = <<>>
              /\ frame[t] = NoFrame
        /\ (prog = "service" /\ pc[t] = "done" /\ exc[t] # NoExc) =>
              response[t].status =
                  IF exc[t].type = "FileNotFoundError" THEN "404" ELSE "500"
        /\ (prog = "service" /\ pc[t] = "done" /\ exc[t] = NoExc) =>
              response[t].status = "200"

\* C11 witness: the service answered a batch on a missing directory with 404.
C11_Witness ==
    \E t \in Threads :
        /\ prog = "service"
        /\ req[t].kind = "batch"
        /\ req[t].directory \notin ExistingDirs
        /\ pc[t] = "done"
        /\ response[t].status = "404"

\* both engines of the holder are in the not-loaded state
NotLoaded(o) ==
    /\ o.pix2tex_model = None
    /\ o.easyocr_reader = None
    /\ ~o.pix2tex_initialized
    /\ ~o.easyocr_initialized

\* C12: whenever HybridOCR.ocr_directory called with auto_cleanup=True has
\* completed, by a report or by raising, both engines are not loaded.
C12_ReleasedAfterBatch ==
    \A t \in Threads :
        (prog = "v2" /\ req[t].kind = "batch" /\ req[t].auto_cleanup /\ pc[t] = "done")
            => NotLoaded(ocr)

C14_EnginesStayResident ==
    (prog = "service" /\ phase = "running") =>
        /\ PIX2TEX_AVAILABLE => ocr.pix2tex_model # None
        /\ EASYOCR_AVAILABLE => ocr.easyocr_reader # None
        /\ \A t \in Threads :
              Calls(t, "load_easyocr") \cup Calls(t, "load_pix2tex") = {}
        /\ load_models_calls(ocr, PIX2TEX_AVAILABLE, EASYOCR_AVAILABLE) = {}
        /\ load_models(ocr, PIX2TEX_AVAILABLE, EASYOCR_AVAILABLE) = ocr

\* C14 witness: a batch that recognised a file has returned, a health
\* request was answered meanwhile, and both engines are loaded.
C14_Witness ==
    /\ prog = "service"
    /\ PIX2TEX_AVAILABLE
    /\ EASYOCR_AVAILABLE
    /\ \E t, u \in Threads :
          /\ HasReport(t)
          /\ response[t].body.success_count > 0
          /\ req[u].kind = "health"
          /\ pc[u] = "done"
          /\ response[u].body.models_loaded.pix2tex
          /\ response[u].body.models_loaded.easyocr
    /\ ocr.pix2tex_model # None
    /\ ocr.easyocr_reader # None

\* C15: HybridOCR.cleanup is idempotent: whatever the engines' state, a
\* cleanup leaves both not loaded (handle absent, flag false) and a second
\* cleanup right after it changes nothing; a cleanup called when nothing is
\* loaded returns normally with both engines not loaded.
C15_CleanupIdempotent ==
    prog = "v2" =>
        /\ NotLoaded(cleanup(ocr))
        /\ cleanup(cleanup(ocr)) = cleanup(ocr)
        /\ \A t \in Threads :
              (req[t].kind = "cleanup" /\ pc[t] = "done") =>
                  /\ NotLoaded(ocr)
                  /\ response[t].status = "returned"

\* C15 witness: cleanup was called with nothing loaded (before any load or
\* right after another cleanup): it deleted nothing and returned.
C15_Witness ==
    \E t \in Threads :
        /\ prog = "v2"
        /\ req[t].kind = "cleanup"
        /\ pc[t] = "done"
        /\ trace[t] = <<Event("clear_gpu_memory")>>
        /\ NotLoaded(ocr)

\* the step of t that runs _ensure_easyocr / _ensure_pix2tex
EnsureStep(t, at) == pc[t] = at /\ pc'[t] # at

\* the ensure call was a no-op: nothing instantiated, nothing changed
EnsureNoOp(t, proceed) ==
    /\ ocr' = ocr
    /\ trace'[t] = trace[t]
    /\ pc'[t] = proceed

\* the ensure call instantiated the engine and returned
EnsureLoaded(t, load, proceed) ==
    /\ trace'[t] = Append(trace[t], Event(load))
    /\ pc'[t] = proceed
    /\ IF load = "load_easyocr"
       THEN /\ ocr'.easyocr_initialized
            /\ ocr'.easyocr_reader # None
            /\ ocr'.pix2tex_model = ocr.pix2tex_model
       ELSE /\ ocr'.pix2tex_initialized
            /\ ocr'.pix2tex_model # None
            /\ ocr'.easyocr_reader = ocr.easyocr_reader

\* the ensure call raised RuntimeError and left the engine not loaded
EnsureRaised(t) ==
    /\ ocr' = ocr
    /\ trace'[t] = trace[t]
    /\ pc'[t] = "img_except"
    /\ exc'[t].type = "RuntimeError"

\* C16 as stated: in HybridOCR an engine is instantiated exactly by the
\* ensure call that finds it not loaded (first use, or first use after a
\* release), and that call succeeds; every other ensure call is a no-op.
C16_LoadLifecycleAlways ==
    [][prog = "v2" =>
         \A t \in Threads :
            /\ EnsureStep(t, "simple_begin") =>
                  IF ocr.easyocr_initialized
                  THEN EnsureNoOp(t, "in_simple")
                  ELSE EnsureLoaded(t, "load_easyocr", "in_simple")
            /\ EnsureStep(t, "complex_begin") =>
                  IF ocr.pix2tex_initialized
                  THEN EnsureNoOp(t, "in_complex")
                  ELSE EnsureLoaded(t, "load_pix2tex", "in_complex")]_vars

\* C16 amended: an ensure call on a loaded engine is a no-op; on an engine
\* that is not loaded it instantiates the engine and returns, or it raises
\* RuntimeError and leaves the engine not loaded, which it always does when
\* the dependency is missing; the flag is set exactly while the handle is.
C16_LoadLifecycle ==
    [][prog = "v2" =>
         /\ ocr.easyocr_initialized <=> ocr.easyocr_reader # None
         /\ ocr.pix2tex_initialized <=> ocr.pix2tex_model # None
         /\ \A t \in Threads :
               /\ EnsureStep(t, "simple_begin") =>
                     IF ocr.easyocr_initialized
                     THEN EnsureNoOp(t, "in_simple")
                     ELSE IF EASYOCR_AVAILABLE
                     THEN EnsureLoaded(t, "load_easyocr", "in_simple") \/ EnsureRaised(t)
                     ELSE EnsureRaised(t)
               /\ EnsureStep(t, "complex_begin") =>
                     IF ocr.pix2tex_initialized
                     THEN EnsureNoOp(t, "in_complex")
                     ELSE IF PIX2TEX_AVAILABLE
                     THEN EnsureLoaded(t, "load_pix2tex", "in_complex") \/ EnsureRaised(t)
                     ELSE EnsureRaised(t)]_vars

\* C16 witness: the second image of a batch reached the text engine without
\* loading it again: the first image's load is still in force.
C16_Witness ==
    \E t \in Threads :
        /\ prog = "v2"
        /\ req[t].kind = "batch"
        /\ batch[t].i = 2
        /\ pc[t] = "in_simple"
        /\ Calls(t, "load_easyocr") = {}
        /\ ocr.easyocr_initialized

\* the text engine / the formula engine cannot serve: its dependency is
\* missing (math-ocr-v2.py) or it was not loaded (the service)
TextEngineUnavailable ==
    IF prog = "v2" THEN ~EASYOCR_AVAILABLE ELSE ocr.easyocr_reader = None
FormulaEngineUnavailable ==
    IF prog = "v2" THEN ~PIX2TEX_AVAILABLE ELSE ocr.pix2tex_model = None

\* the messages of the RuntimeError an unavailable engine raises
UnavailableMessages ==
    {"easyocr not available", "pix2tex not available",
     "EasyOCR not loaded", "pix2tex not loaded"}

\* C17: a recognition routed to an engine that is unavailable raises
\* RuntimeError; ocr_image turns it into a failed result with method
\* "error" carrying the message; and ocr_directory takes that result and
\* goes on with the loop.
C17_UnavailableEngine ==
    [][\A t \in Threads :
          /\ (EnsureStep(t, "simple_begin") /\ TextEngineUnavailable) =>
                /\ pc'[t] = "img_except"
                /\ exc'[t].type = "RuntimeError"
                /\ exc'[t].msg \in UnavailableMessages
          /\ (EnsureStep(t, "complex_begin") /\ FormulaEngineUnavailable) =>
                /\ pc'[t] = "img_except"
                /\ exc'[t].type = "RuntimeError"
                /\ exc'[t].msg \in UnavailableMessages
          /\ (EnsureStep(t, "img_except") /\ exc[t].type = "RuntimeError") =>
                /\ pc'[t] = "img_ret"
                /\ ~result'[t].success
                /\ result'[t].method = "error"
                /\ result'[t].error = exc[t].msg
                /\ result'[t].latex = <<>>
          /\ (EnsureStep(t, "img_ret") /\ req[t].kind = "batch"
                 /\ result[t].method = "error") =>
                /\ pc'[t] = "loop"
                /\ batch'[t].i = batch[t].i
                /\ batch'[t].image_files = batch[t].image_files]_vars

\* C17 witness: a batch of two files has returned its report although the
\* first file failed on an unavailable engine.
C17_Witness ==
    \E t \in Threads :
        /\ HasReport(t)
        /\ Len(batch[t].image_files) = 2
        /\ response[t].body.count = 2
        /\ Len(response[t].body.errors) >= 1
        /\ response[t].body.errors[1].file = PathName(batch[t].image_files[1])
        /\ response[t].body.errors[1].error \in UnavailableMessages

\* the pixels of the call's image with luminance strictly below the threshold
ContentPixels ==
    {p \in Coords(crop_call.img.w, crop_call.img.h) :
        crop_call.img.pixels[p] < crop_call.threshold}

\* C18: for an image with no pixel of luminance strictly below the
\* threshold, crop_to_content returns no image and the dimensions (0, 0, 0, 0).
C18_NoContentSignal ==
    (crop_call.returned /\ ContentPixels = {}) =>
        /\ crop_call.cropped = NoneImage
        /\ crop_call.dims = <<0, 0, 0, 0>>

\* C18 witness: the call returned for an image whose only non-white pixels
\* have exactly the threshold's luminance.
C18_Witness ==
    /\ crop_call.returned
    /\ ContentPixels = {}
    /\ \E p \in Coords(crop_call.img.w, crop_call.img.h) :
          crop_call.img.pixels[p] = crop_call.threshold
    /\ crop_call.cropped = NoneImage

\* C19: crop_to_content returns no image if and only if the image has no
\* pixel of luminance strictly below the threshold; content confined to one
\* pixel, one row or one column still yields a cropped image.
C19_NoContentIffNoPixel ==
    crop_call.returned =>
        (crop_call.cropped = NoneImage <=> ContentPixels = {})

\* C20: when crop_to_content returns a crop, the raw dimensions are
\* max_x - min_x and max_y - min_y of the content pixels, each padded
\* dimension lies between the raw dimension and the raw dimension plus
\* twice the padding, and the crop rectangle lies within the image.
C20_PaddedDimensions ==
    (crop_call.returned /\ crop_call.cropped # NoneImage) =>
        LET xs == {p[1] : p \in ContentPixels}
            ys == {p[2] : p \in ContentPixels}
            raw_w == SetMax(xs) - SetMin(xs)
            raw_h == SetMax(ys) - SetMin(ys)
            padded_w == crop_call.dims[3]
            padded_h == crop_call.dims[4]
            box == CropBox(crop_call.img, crop_call.padding, crop_call.threshold)
        IN  /\ crop_call.dims[1] = raw_w
            /\ crop_call.dims[2] = raw_h
            /\ raw_w <= padded_w
            /\ padded_w <= raw_w + 2 * crop_call.padding
            /\ raw_h <= padded_h
            /\ padded_h <= raw_h + 2 * crop_call.padding
            /\ 0 <= box.crop_min_x
            /\ box.crop_min_x < box.crop_max_x
            /\ box.crop_max_x <= crop_call.img.w
            /\ 0 <= box.crop_min_y
            /\ box.crop_min_y < box.crop_max_y
            /\ box.crop_max_y <= crop_call.img.h
            /\ crop_call.cropped.w = padded_w
            /\ crop_call.cropped.h = padded_h
            /\ padded_w = box.crop_max_x - box.crop_min_x
            /\ padded_h = box.crop_max_y - box.crop_min_y

\* C20 witness: a crop with positive padding whose width received the whole
\* padding on both sides while its height was clamped to the image.
C20_Witness ==
    /\ crop_call.returned
    /\ crop_call.cropped # NoneImage
    /\ crop_call.padding > 0
    /\ crop_call.dims[3] = crop_call.dims[1] + 2 * crop_call.padding
    /\ crop_call.dims[4] < crop_call.dims[2] + 2 * crop_call.padding

(***************************************************************************)
(* OCRService(): __new__ and __init__ of the singleton, one statement a    *)
(* step, for threads that construct it concurrently.  singleton.instance   *)
(* is cls._instance (the object is named after the thread that created     *)
(* it), singleton.lock the holder of cls._lock, singleton.initialized the  *)
(* attribute _initialized of the object: "absent" before it is assigned.   *)
(***************************************************************************)
NotConstructed == [instance |-> None, initialized |-> "absent", lock |-> None]

\* the threads whose OCRService() has returned the object
Holders == {t \in Threads : pc[t] \in {"init_done", "init_skip"}}

\* a thread calls OCRService()
Construct(t) ==
    /\ pc[t] = "idle"
    /\ pc' = [pc EXCEPT ![t] = "new_check"]
    /\ UNCHANGED <<fixed, crop_call, call, singleton, phase, ocr, processing_lock, req,
                   frame, trace, result, batch, exc, response>>

\* __new__: if cls._instance is None (the unlocked test) ... return cls._instance
NewCheck(t) ==
    /\ pc[t] = "new_check"
    /\ IF singleton.instance = None
       THEN /\ pc' = [pc EXCEPT ![t] = "new_lock"]
            /\ response' = response
       ELSE /\ pc' = [pc EXCEPT ![t] = "init_check"]
            /\ response' = [response EXCEPT ![t] =
                                [status |-> "new", body |-> singleton.instance]]
    /\ UNCHANGED <<fixed, crop_call, call, singleton, phase, ocr, processing_lock, req,
                   frame, trace, result, batch, exc>>

\* __new__: with cls._lock
NewLock(t) ==
    /\ pc[t] = "new_lock"
    /\ LockFree(singleton.lock)
    /\ singleton' = [singleton EXCEPT !.lock = t]
    /\ pc' = [pc EXCEPT ![t] = "new_create"]
    /\ UNCHANGED <<fixed, crop_call, call, phase, ocr, processing_lock, req, frame,
                   trace, result, batch, exc, response>>

\* __new__: if cls._instance is None: cls._instance = super().__new__(cls)
NewCreate(t) ==
    /\ pc[t] = "new_create"
    /\ IF singleton.instance = None
       THEN /\ singleton' = [singleton EXCEPT !.instance = t, !.initialized = "absent"]
            /\ pc' = [pc EXCEPT ![t] = "new_flag"]
       ELSE /\ singleton' = singleton
            /\ pc' = [pc EXCEPT ![t] = "new_unlock"]
    /\ UNCHANGED <<fixed, crop_call, call, phase, ocr, processing_lock, req, frame,
                   trace, result, batch, exc, response>>

\* __new__: cls._instance._initialized = False
NewFlag(t) ==
    /\ pc[t] = "new_flag"
    /\ singleton' = [singleton EXCEPT !.initialized = "False"]
    /\ pc' = [pc EXCEPT ![t] = "new_unlock"]
    /\ UNCHANGED <<fixed, crop_call, call, phase, ocr, processing_lock, req, frame,
                   trace, result, batch, exc, response>>

\* __new__: the end of "with cls._lock" and return cls._instance
NewUnlock(t) ==
    /\ pc[t] = "new_unlock"
    /\ singleton' = [singleton EXCEPT !.lock = None]
    /\ response' = [response EXCEPT ![t] = [status |-> "new", body |-> singleton.instance]]
    /\ pc' = [pc EXCEPT ![t] = "init_check"]
    /\ UNCHANGED <<fixed, crop_call, call, phase, ocr, processing_lock, req, frame,
                   trace, result, batch, exc>>

\* __init__: if self._initialized: return (no lock is held); reading the
\* attribute before __new__ has assigned it raises AttributeError
InitCheck(t) ==
    /\ pc[t] = "init_check"
    /\ CASE singleton.initialized = "absent" ->
                /\ exc' = [exc EXCEPT ![t] = Exc("AttributeError", "_initialized", "__init__")]
                /\ pc' = [pc EXCEPT ![t] = "init_raised"]
         [] singleton.initialized = "True" ->
                /\ exc' = exc
                /\ pc' = [pc EXCEPT ![t] = "init_skip"]
         [] singleton.initialized = "False" ->
                /\ exc' = exc
                /\ pc' = [pc EXCEPT ![t] = "init_body"]
    /\ UNCHANGED <<fixed, crop_call, call, singleton, phase, ocr, processing_lock, req,
                   frame, trace, result, batch, response>>

\* __init__: the handles are set to None, _processing_lock to a new Lock and
\* _initialized to True
InitBody(t) ==
    /\ pc[t] = "init_body"
    /\ ocr' = NewOCR
    /\ processing_lock' = None
    /\ singleton' = [singleton EXCEPT !.initialized = "True"]
    /\ pc' = [pc EXCEPT ![t] = "init_done"]
    /\ UNCHANGED <<fixed, crop_call, call, phase, req, frame, trace, result, batch, exc,
                   response>>

\* a thread that holds the object calls load_models() on it
HolderLoads ==
    /\ Holders # {}
    /\ LoadModels

\* a thread that holds the object enters "with self._processing_lock"
HolderEntersGate(t) ==
    /\ t \in Holders
    /\ LockFree(processing_lock)
    /\ processing_lock' = t
    /\ UNCHANGED <<fixed, crop_call, call, singleton, phase, ocr, pc, req, frame, trace,
                   result, batch, exc, response>>

InitSingleton ==
    /\ InitProgram({"service"}, "threaded")
    /\ crop_call = NoCropCall
    /\ call = NoCall
    /\ singleton = NotConstructed

NextSingleton ==
    \/ HolderLoads
    \/ \E t \in Threads :
          \/ Construct(t)
          \/ NewCheck(t)
          \/ NewLock(t)
          \/ NewCreate(t)
          \/ NewFlag(t)
          \/ NewUnlock(t)
          \/ InitCheck(t)
          \/ InitBody(t)
          \/ HolderEntersGate(t)

SpecSingleton == InitSingleton /\ [][NextSingleton]_vars

\* the six rules of the classification, the first that applies deciding;
\* the ratio w / h is compared exactly: w/h > 2.5 is 10 w > 25 h,
\* w/h < 0.35 is 100 w < 35 h, w/h <= 2.0 is w <= 2 h
SixRules(w, h, area_threshold, max_dimension) ==
    CASE h = 0 -> TRUE
      [] h # 0 /\ 10 * w > 25 * h -> FALSE
      [] h # 0 /\ 10 * w <= 25 * h /\ 100 * w < 35 * h -> FALSE
      [] OTHER ->
            \/ w * h < area_threshold /\ 100 * w >= 35 * h /\ w <= 2 * h
            \/ w < max_dimension /\ h < max_dimension /\ 100 * w >= 35 * h /\ w <= 2 * h

\* the call classified (w, h) with the default thresholds
Classified(w, h) ==
    /\ call.returned
    /\ call.args = <<w, h, DefaultAreaThreshold, DefaultMaxDimension>>

C22_BestRegionFirstOfTies ==
    (call.fn = "ocr_simple" /\ call.returned) =>
        LET regions == call.args[1]
        IN  IF Len(regions) = 0 THEN call.value = <<>>
            ELSE \E i \in 1..Len(regions) :
                    /\ call.value = regions[i][2]
                    /\ \A j \in 1..Len(regions) : regions[j][3] <= regions[i][3]
                    /\ \A j \in 1..(i - 1) : regions[j][3] < regions[i][3]

\* C22 witness: of three regions the second and third tie for the maximum
\* confidence with different texts, and the second one's text was returned.
C22_Witness ==
    /\ call.fn = "ocr_simple"
    /\ call.returned
    /\ Len(call.args[1]) = 3
    /\ call.args[1][2][3] = call.args[1][3][3]
    /\ call.args[1][1][3] < call.args[1][2][3]
    /\ call.args[1][2][2] # call.args[1][3][2]
    /\ call.value = call.args[1][2][2]

\* C23: in every report of ocr_directory simple_count and complex_count add
\* up to success_count, success_count is not negative, and success_count
\* plus the number of error records is count.
C23_CountsAddUp ==
    \A t \in Threads :
        HasReport(t) =>
            LET body == response[t].body
            IN  /\ body.simple_count + body.complex_count = body.success_count
                /\ body.success_count >= 0
                /\ body.success_count + Len(body.errors) = body.count

\* C24: whenever crop_to_content returns a crop, for any padding from 0 up,
\* the half-open rectangle handed to img.crop contains every content pixel,
\* those of column max_x and of row max_y included.
C24_CropContainsContent ==
    (crop_call.returned /\ crop_call.cropped # NoneImage) =>
        LET box == CropBox(crop_call.img, crop_call.padding, crop_call.threshold)
        IN  \A p \in ContentPixels :
                /\ box.crop_min_x <= p[1]
                /\ p[1] < box.crop_max_x
                /\ box.crop_min_y <= p[2]
                /\ p[2] < box.crop_max_y

\* the object OCRService() handed to t, once __new__ has returned
Received(t) == IF response[t].status = "new" THEN {response[t].body} ELSE {}

\* C25: however the threads that construct OCRService() concurrently
\* interleave, all of them receive the same object, no construction raises,
\* the body of __init__ runs at most once, and no run of the body discards a
\* loaded engine or replaces a gate that is held.
C25_SingletonInitOnce ==
    /\ [](Cardinality(UNION {Received(t) : t \in Threads}) <= 1)
    /\ [](\A t \in Threads : pc[t] # "init_raised")
    /\ [](Cardinality({t \in Threads : pc[t] \in {"init_body", "init_done"}}) <= 1)
    /\ [][\A t \in Threads :
            (pc[t] = "init_body" /\ pc'[t] = "init_done") =>
                (ocr = NewOCR /\ processing_lock = None)]_vars

C27_FlagIffHandle ==
    prog = "v2" =>
        /\ ocr.pix2tex_initialized <=> (ocr.pix2tex_model # None)
        /\ ocr.easyocr_initialized <=> (ocr.easyocr_reader # None)

\* C27 witness: with the text engine loaded, _ensure_pix2tex has just failed
\* in the constructor of the formula engine, which is left without handle
\* and without flag.
C27_Witness ==
    \E t \in Threads :
        /\ prog = "v2"
        /\ pc[t] = "img_except"
        /\ exc[t].msg = "model load failed"
        /\ ocr.easyocr_initialized
        /\ ocr.easyocr_reader # None
        /\ ~ocr.pix2tex_initialized
        /\ ocr.pix2tex_model = None

====
